---- MODULE Spec2Model ----
(***************************************************************************)
(* State-machine model of plugins/modules/nvue.py: one invocation of the   *)
(* module (main -> run_nvue) against a device reached through              *)
(* module.run_command, repeated over successive invocations on one device. *)
(*                                                                         *)
(* Strings are sequences of atoms: " " and "\n" are the whitespace atoms,  *)
(* every other atom is a word.  A boolean option that is FALSE stands for  *)
(* an option left at its default (not supplied by the caller); an empty   *)
(* commands list stands for commands left at its default [].               *)
(***************************************************************************)
EXTENDS Naturals, Sequences, FiniteSets, TLC

VARIABLES
    params,         \* module.params after AnsibleModule() (defaults filled in)
    check_mode,     \* module.check_mode
    pc,             \* position of the invocation
    commands,       \* run_nvue local: resolved command lines
    idx,            \* commands_helper: index of the next line of the loop
    do_apply,       \* run_nvue local
    do_detach,      \* run_nvue local
    do_save,        \* run_nvue local
    apply_options,  \* run_nvue local
    changed,        \* run_nvue local
    before,         \* run_nvue local
    after,          \* run_nvue local
    output,         \* run_nvue local
    calls,          \* command lines handed to module.run_command, in order
    failure,        \* argument of module.fail_json, or None
    result,         \* arguments of module.exit_json, or None
    cand,           \* device: pending configuration buffer
    applied,        \* device: applied configuration
    saved,          \* device: saved configuration
    dev0,           \* device state when the invocation started
    twin            \* the run this invocation is compared with, or None

vars == <<params, check_mode, pc, commands, idx, do_apply, do_detach, do_save,
          apply_options, changed, before, after, output, calls, failure,
          result, cand, applied, saved, dev0, twin>>

locals == <<commands, idx, do_apply, do_detach, do_save, apply_options,
            changed, before, after, output>>

device == <<cand, applied, saved>>

\* Python's None, and a value that is present
None == <<>>
Some(x) == <<x>>

(***************************************************************************)
(* Bounds and input alphabets                                              *)
(***************************************************************************)
MaxCmds == 2

SP == " "
NL == "\n"

Whitespace == {SP, NL}

Blank == <<SP>>
SetA == <<SP, "set", SP, "a", SP>>
UnsetA == <<"unset", SP, "a">>
SetB == <<"set", SP, "b">>

Lines == {Blank, SetA, UnsetA}

RECURSIVE SeqsUpTo(_, _)
SeqsUpTo(S, n) ==
    IF n = 0 THEN {<<>>}
    ELSE LET shorter == SeqsUpTo(S, n - 1)
         IN  shorter \cup {Append(s, x) : s \in {t \in shorter : Len(t) = n - 1}, x \in S}

CmdLists == SeqsUpTo(Lines, MaxCmds)

DefaultTimeout == <<"10m">>
Timeouts == {DefaultTimeout, <<"30s">>}

\* what the device may print and return
StdOuts == {<<>>, <<SP, "ok", NL>>}
ApplyOuts == {<<>>, <<"applied", NL>>}
SaveOuts == {<<>>, <<"saved", NL>>}
DetachOut == <<"detached", NL>>
FailOut == <<"usage", NL>>
StdErr == <<"error", NL>>
FailCodes == {2}

(***************************************************************************)
(* String helpers                                                          *)
(***************************************************************************)
RECURSIVE lstrip(_)
lstrip(s) ==
    IF s # <<>> /\ Head(s) \in Whitespace THEN lstrip(Tail(s)) ELSE s

RECURSIVE rstrip(_)
rstrip(s) ==
    IF s # <<>> /\ s[Len(s)] \in Whitespace
    THEN rstrip(SubSeq(s, 1, Len(s) - 1))
    ELSE s

strip(s) == rstrip(lstrip(s))

\* str.splitlines(): lines end at "\n"; no trailing empty line
RECURSIVE splitlines(_, _)
splitlines(s, cur) ==
    IF s = <<>> THEN (IF cur = <<>> THEN <<>> ELSE <<cur>>)
    ELSE IF Head(s) = NL THEN <<cur>> \o splitlines(Tail(s), <<>>)
    ELSE splitlines(Tail(s), Append(cur, Head(s)))

RECURSIVE JoinLines(_)
JoinLines(ls) ==
    IF ls = <<>> THEN <<>> ELSE Head(ls) \o <<NL>> \o JoinLines(Tail(ls))

Templates == {None} \cup {Some(JoinLines(l)) : l \in {<<>>, <<SetA, Blank, UnsetA>>}}

\* the words (non-whitespace atoms) of a string, in order
Words(s) == SelectSeq(s, LAMBDA c : c \notin Whitespace)

\* s contains t as a contiguous substring
Contains(s, t) ==
    \E i \in 1..(Len(s) + 1) :
        i + Len(t) - 1 <= Len(s) /\ SubSeq(s, i, i + Len(t) - 1) = t

(***************************************************************************)
(* The device behind /usr/bin/nv                                           *)
(***************************************************************************)
\* stdout of 'nv config diff': the pending changes of the buffer
ItemDiff(x, c, a) ==
    IF x \in c \ a THEN <<"+", x, NL>>
    ELSE IF x \in a \ c THEN <<"-", x, NL>>
    ELSE <<>>

DiffText(c, a) == ItemDiff("a", c, a) \o ItemDiff("b", c, a)

IsPrefix(t, s) == Len(t) <= Len(s) /\ SubSeq(s, 1, Len(t)) = t

\* the outcomes of a command line that the device accepts
DevStep(w, c, a, s) ==
    IF w = <<"config", "detach">>
    THEN {[stdout |-> DetachOut, cand |-> a, applied |-> a, saved |-> s]}
    ELSE IF w = <<"config", "diff">>
    THEN {[stdout |-> DiffText(c, a), cand |-> c, applied |-> a, saved |-> s]}
    ELSE IF IsPrefix(<<"config", "apply">>, w)
    THEN {[stdout |-> o, cand |-> c, applied |-> c, saved |-> s] : o \in ApplyOuts}
    ELSE IF w = <<"config", "save">>
    THEN {[stdout |-> o, cand |-> c, applied |-> a, saved |-> a] : o \in SaveOuts}
    ELSE IF Len(w) = 2 /\ w[1] = "set"
    THEN {[stdout |-> o, cand |-> c \cup {w[2]}, applied |-> a, saved |-> s] : o \in StdOuts}
    ELSE IF Len(w) = 2 /\ w[1] = "unset"
    THEN {[stdout |-> o, cand |-> c \ {w[2]}, applied |-> a, saved |-> s] : o \in StdOuts}
    ELSE {[stdout |-> o, cand |-> c, applied |-> a, saved |-> s] : o \in StdOuts}

\* module.run_command(line): the device runs the line, or refuses it
run_command(line, c, a, s) ==
    {[rc |-> 0, stdout |-> r.stdout, stderr |-> <<>>,
      cand |-> r.cand, applied |-> r.applied, saved |-> r.saved] :
        r \in DevStep(Tail(Words(line)), c, a, s)}
    \cup
    {[rc |-> n, stdout |-> FailOut, stderr |-> StdErr,
      cand |-> c, applied |-> a, saved |-> s] : n \in FailCodes}

(***************************************************************************)
(* command_helper                                                          *)
(***************************************************************************)
NvLine(command) == <<"/usr/bin/nv", SP>> \o command

FailMsg(command, r) ==
    [msg |-> <<"Failed on line '">> \o command \o <<"'">>,
     rc |-> r.rc, stdout |-> r.stdout, stderr |-> r.stderr]

\* the executor's answer r to a line is the one it gave in the run this
\* invocation is compared with, when that run sent the same line at the
\* same place
SameAnswer(line, r) ==
    IF twin = None THEN TRUE
    ELSE LET n == Len(calls) + 1
             sent == twin[1].calls
         IN  IF n <= Len(sent) /\ sent[n].line = line
             THEN r.rc = sent[n].rc /\ r.stdout = sent[n].stdout
             ELSE TRUE

\* The executor call of command_helper with the executor's answer r: the
\* call is recorded, the device moves, and a non-zero exit status ends the
\* invocation in fail_json.  Ret(r) is what the caller gets otherwise.
command_helper(command, r) ==
    /\ SameAnswer(NvLine(command), r)
    /\ calls' = Append(calls, [line |-> NvLine(command), rc |-> r.rc,
                               stdout |-> r.stdout, stderr |-> r.stderr])
    /\ cand' = r.cand
    /\ applied' = r.applied
    /\ saved' = r.saved
    /\ failure' = IF r.rc # 0 THEN Some(FailMsg(command, r)) ELSE None

\* a command_helper that forgets to trim
RetRaw(r) == r.stdout

\* line 128
Ret(r) == strip(r.stdout)

\* a command_helper that ignores the exit status
ContinueAnyway(r, next) == next

\* lines 126-127: where the invocation goes after a call
Continue(r, next) == IF r.rc # 0 THEN "failed" ELSE next

(***************************************************************************)
(* main: AnsibleModule(argument_spec, mutually_exclusive)                  *)
(***************************************************************************)
\* confirm_timeout is read under confirm only (lines 158-160): the requests
\* without confirm leave it at its default
ArgumentSpec ==
    {p \in [apply : BOOLEAN, atomic : BOOLEAN, commands : CmdLists,
            confirm : BOOLEAN, confirm_no : BOOLEAN, confirm_timeout : Timeouts,
            confirm_yes : BOOLEAN, detach : BOOLEAN, save : BOOLEAN,
            template : Templates] :
        ~p.confirm => p.confirm_timeout = DefaultTimeout}

\* the exclusions the option documentation names, without the confirm ones
mutually_exclusive_documented ==
    {<<"commands", "template">>, <<"apply", "atomic">>, <<"detach", "atomic">>}

mutually_exclusive ==
    {<<"commands", "template">>, <<"apply", "atomic">>, <<"confirm", "atomic">>,
     <<"confirm_no", "atomic">>, <<"confirm_yes", "atomic">>,
     <<"confirm_no", "confirm_yes">>, <<"confirm", "confirm_yes">>,
     <<"confirm", "confirm_no">>, <<"detach", "atomic">>}

\* the caller supplied option k (see the header: defaults stand for absence)
Supplied(p, k) ==
    IF k = "commands" THEN p.commands # <<>>
    ELSE IF k = "template" THEN p.template # None
    ELSE p[k]

Rejected(p) ==
    \E pair \in mutually_exclusive : Supplied(p, pair[1]) /\ Supplied(p, pair[2])

Terminal == {"done", "failed", "rejected", "crashed"}

\* lines 195-219: AnsibleModule() parses and validates the arguments p
Invoke(p, cm) ==
    /\ params' = p
    /\ check_mode' = cm
    /\ pc' = IF Rejected(p) THEN "rejected" ELSE "run_nvue"
    /\ failure' = IF Rejected(p)
                  THEN Some([msg |-> <<"parameters are mutually exclusive">>])
                  ELSE None

\* a fresh process runs main()
Main ==
    /\ pc = "idle"
    /\ \E p \in ArgumentSpec, cm \in BOOLEAN : Invoke(p, cm)
    /\ dev0' = device
    /\ UNCHANGED <<locals, calls, result, device, twin>>

(***************************************************************************)
(* run_nvue                                                                *)
(***************************************************************************)
\* lines 155-161
ApplyOptions(p) ==
    (IF p.confirm THEN <<SP, "--confirm", SP>> \o p.confirm_timeout ELSE <<>>)
    \o (IF p.confirm_yes THEN <<SP, "--confirm-yes">> ELSE <<>>)
    \o (IF p.confirm_no THEN <<SP, "--confirm-no">> ELSE <<>>)

\* confirm that does not imply apply
DoApplyNoConfirm(p) == p.apply \/ p.atomic

\* lines 147, 155-156, 165-166
DoApply(p) == p.apply \/ p.confirm \/ p.atomic

\* atomic that does not imply detach
DoDetachFlagOnly(p) == p.detach

\* lines 149, 165-167
DoDetach(p) == p.detach \/ p.atomic

\* lines 144-167: the command list and the effective flags; template=None
\* has no splitlines and the invocation dies with an uncaught exception
Resolve ==
    /\ pc = "run_nvue"
    /\ IF params.commands = <<>> /\ params.template = None
       THEN /\ pc' = "crashed"
            /\ UNCHANGED locals
       ELSE /\ pc' = "detach"
            /\ commands' = IF params.commands # <<>> THEN params.commands
                           ELSE splitlines(params.template[1], <<>>)
            /\ do_apply' = DoApply(params)
            /\ apply_options' = ApplyOptions(params)
            /\ do_detach' = DoDetach(params)
            /\ do_save' = params.save
            /\ changed' = FALSE
            /\ UNCHANGED <<idx, before, after, output>>
    /\ UNCHANGED <<params, check_mode, calls, failure, result, device, dev0, twin>>

\* check mode that does not force the detach
NeedDetachFlagOnly == do_detach

\* a detach before every run
NeedDetachAlways == TRUE

\* lines 169-170
NeedDetach == do_detach \/ check_mode

\* a run_nvue without its detach step
DetachNever ==
    /\ pc = "detach"
    /\ pc' = "before"
    /\ UNCHANGED <<params, check_mode, locals, calls, failure, result, device, dev0, twin>>

Detach ==
    /\ pc = "detach"
    /\ IF NeedDetach
       THEN \E r \in run_command(NvLine(<<"config", SP, "detach">>), cand, applied, saved) :
                /\ command_helper(<<"config", SP, "detach">>, r)
                /\ pc' = Continue(r, "before")
       ELSE /\ pc' = "before"
            /\ UNCHANGED <<calls, failure, device>>
    /\ UNCHANGED <<params, check_mode, locals, result, dev0, twin>>

\* line 172: before = check_pending(module)
Before ==
    /\ pc = "before"
    /\ \E r \in run_command(NvLine(<<"config", SP, "diff">>), cand, applied, saved) :
        /\ command_helper(<<"config", SP, "diff">>, r)
        /\ pc' = Continue(r, "commands")
        /\ before' = IF r.rc # 0 THEN before ELSE Ret(r)
    /\ UNCHANGED <<params, check_mode, commands, idx, do_apply, do_detach, do_save,
                   apply_options, changed, after, output, result, dev0, twin>>

\* commands_helper: the index of the first line at or after i that is not
\* blank once stripped, Len(commands) + 1 when there is none
RECURSIVE NextLine(_)
NextLine(i) ==
    IF i > Len(commands) THEN i
    ELSE IF strip(commands[i]) = <<>> THEN NextLine(i + 1)
    ELSE i

\* lines 134-138, one turn of the generator up to its yield
Command ==
    /\ pc = "commands"
    /\ NextLine(idx) <= Len(commands)
    /\ LET line == strip(commands[NextLine(idx)])
       IN  \E r \in run_command(NvLine(line), cand, applied, saved) :
            /\ command_helper(line, r)
            /\ pc' = Continue(r, "commands")
            /\ output' = IF r.rc # 0 THEN output ELSE Append(output, Ret(r))
            /\ idx' = NextLine(idx) + 1
    /\ UNCHANGED <<params, check_mode, commands, do_apply, do_detach, do_save,
                   apply_options, changed, before, after, result, dev0, twin>>

\* changed taken from the pending diff alone
ChangedIfPending(b, a) == a # <<>>

\* line 176
Changed(b, a) == b # a

\* an after snapshot that does not wait for the command list to finish
AfterEarly ==
    /\ pc = "commands"
    /\ \E r \in run_command(NvLine(<<"config", SP, "diff">>), cand, applied, saved) :
        /\ command_helper(<<"config", SP, "diff">>, r)
        /\ pc' = Continue(r, "apply")
        /\ after' = IF r.rc # 0 THEN after ELSE Ret(r)
        /\ changed' = IF r.rc # 0 THEN changed ELSE Changed(before, Ret(r))
    /\ UNCHANGED <<params, check_mode, commands, idx, do_apply, do_detach, do_save,
                   apply_options, before, output, result, dev0, twin>>

\* lines 174-176: after = check_pending(module); changed = before != after
After ==
    /\ pc = "commands"
    /\ NextLine(idx) > Len(commands)
    /\ \E r \in run_command(NvLine(<<"config", SP, "diff">>), cand, applied, saved) :
        /\ command_helper(<<"config", SP, "diff">>, r)
        /\ pc' = Continue(r, "apply")
        /\ after' = IF r.rc # 0 THEN after ELSE Ret(r)
        /\ changed' = IF r.rc # 0 THEN changed ELSE Changed(before, Ret(r))
    /\ UNCHANGED <<params, check_mode, commands, idx, do_apply, do_detach, do_save,
                   apply_options, before, output, result, dev0, twin>>

\* an apply that is not held back by check mode
NeedApplyInCheckMode == after # <<>> /\ do_apply

\* an apply that does not look at the pending diff
NeedApplyEvenIfEmpty == do_apply /\ ~check_mode

\* line 180
NeedApply == after # <<>> /\ do_apply /\ ~check_mode

\* line 182
ApplyCommand == <<"config", SP, "apply", SP, "--assume-yes", SP>> \o apply_options

\* lines 180-184
Apply ==
    /\ pc = "apply"
    /\ IF NeedApply
       THEN \E r \in run_command(NvLine(ApplyCommand), cand, applied, saved) :
                /\ command_helper(ApplyCommand, r)
                /\ changed' = TRUE
                /\ pc' = Continue(r, "save")
                /\ output' = IF r.rc = 0 /\ Ret(r) # <<>>
                             THEN Append(output, Ret(r)) ELSE output
       ELSE /\ pc' = "save"
            /\ UNCHANGED <<changed, output, calls, failure, device>>
    /\ UNCHANGED <<params, check_mode, commands, idx, do_apply, do_detach, do_save,
                   apply_options, before, after, result, dev0, twin>>

\* a save that is not held back by check mode
NeedSaveInCheckMode == do_save

\* a save that is skipped when nothing is pending
NeedSaveIfPending == do_save /\ ~check_mode /\ after # <<>>

\* line 186
NeedSave == do_save /\ ~check_mode

\* lines 186-190
Save ==
    /\ pc = "save"
    /\ IF NeedSave
       THEN \E r \in run_command(NvLine(<<"config", SP, "save">>), cand, applied, saved) :
                /\ command_helper(<<"config", SP, "save">>, r)
                /\ changed' = TRUE
                /\ pc' = Continue(r, "exit")
                /\ output' = IF r.rc = 0 /\ Ret(r) # <<>>
                             THEN Append(output, Ret(r)) ELSE output
       ELSE /\ pc' = "exit"
            /\ UNCHANGED <<changed, output, calls, failure, device>>
    /\ UNCHANGED <<params, check_mode, commands, idx, do_apply, do_detach, do_save,
                   apply_options, before, after, result, dev0, twin>>

\* lines 192, 221-223: module.exit_json(changed, diff, msg)
ExitJson ==
    /\ pc = "exit"
    /\ result' = Some([changed |-> changed,
                       diff |-> [before |-> before, after |-> after],
                       msg |-> output])
    /\ pc' = "done"
    /\ UNCHANGED <<params, check_mode, locals, calls, failure, device, dev0, twin>>

DefaultParams ==
    [apply |-> FALSE, atomic |-> FALSE, commands |-> <<>>,
     confirm |-> FALSE, confirm_no |-> FALSE,
     confirm_timeout |-> DefaultTimeout, confirm_yes |-> FALSE,
     detach |-> FALSE, save |-> FALSE, template |-> None]

\* exit_json, fail_json and an uncaught exception end the process: nothing
\* of the invocation outlives it but the state of the device
ProcessExit ==
    /\ pc \in Terminal
    /\ pc' = "idle"
    /\ params' = DefaultParams
    /\ check_mode' = FALSE
    /\ commands' = <<>>
    /\ idx' = 1
    /\ do_apply' = FALSE
    /\ do_detach' = FALSE
    /\ do_save' = FALSE
    /\ apply_options' = <<>>
    /\ changed' = FALSE
    /\ before' = <<>>
    /\ after' = <<>>
    /\ output' = <<>>
    /\ calls' = <<>>
    /\ failure' = None
    /\ result' = None
    /\ dev0' = device
    /\ UNCHANGED <<device, twin>>

Init ==
    /\ params = DefaultParams
    /\ check_mode = FALSE
    /\ pc = "idle"
    /\ commands = <<>>
    /\ idx = 1
    /\ do_apply = FALSE
    /\ do_detach = FALSE
    /\ do_save = FALSE
    /\ apply_options = <<>>
    /\ changed = FALSE
    /\ before = <<>>
    /\ after = <<>>
    /\ output = <<>>
    /\ calls = <<>>
    /\ failure = None
    /\ result = None
    /\ cand = {}
    /\ applied = {}
    /\ saved = {}
    /\ dev0 = <<{}, {}, {}>>
    /\ twin = None

Next ==
    \/ Main
    \/ Resolve
    \/ Detach
    \/ Before
    \/ Command
    \/ After
    \/ Apply
    \/ Save
    \/ ExitJson
    \/ ProcessExit

Spec == Init /\ [][Next]_vars

(***************************************************************************)
(* Two invocations side by side: a request with atomic=true, then, from    *)
(* the same device state and with the same answers of the executor, the    *)
(* same request with atomic=false, detach=true, apply=true.                *)
(***************************************************************************)
Items == {"a"}

\* the device starts in any of the states the invocations of Spec leave it in
TwinOf(p) == [p EXCEPT !.atomic = FALSE, !.detach = TRUE, !.apply = TRUE]

InitTwin ==
    /\ params = DefaultParams
    /\ check_mode = FALSE
    /\ pc = "idle"
    /\ commands = <<>>
    /\ idx = 1
    /\ do_apply = FALSE
    /\ do_detach = FALSE
    /\ do_save = FALSE
    /\ apply_options = <<>>
    /\ changed = FALSE
    /\ before = <<>>
    /\ after = <<>>
    /\ output = <<>>
    /\ calls = <<>>
    /\ failure = None
    /\ result = None
    /\ cand \in SUBSET Items
    /\ applied \in SUBSET Items
    /\ saved \in SUBSET Items
    /\ dev0 = <<cand, applied, saved>>
    /\ twin = None

\* main() with atomic=true and detach, apply left false
TwinFirst ==
    /\ pc = "idle"
    /\ twin = None
    /\ \E p \in ArgumentSpec, cm \in BOOLEAN :
        /\ p.atomic /\ ~p.detach /\ ~p.apply
        /\ Invoke(p, cm)
    /\ dev0' = device
    /\ UNCHANGED <<locals, calls, result, device, twin>>

\* the first run is kept; main() runs again with the twin request on the
\* device as it was when the first run started
TwinSecond ==
    /\ pc \in Terminal
    /\ twin = None
    /\ twin' = Some([params |-> params, pc |-> pc, calls |-> calls,
                     failure |-> failure, result |-> result,
                     device |-> <<cand, applied, saved>>])
    /\ Invoke(TwinOf(params), check_mode)
    /\ cand' = dev0[1]
    /\ applied' = dev0[2]
    /\ saved' = dev0[3]
    /\ commands' = <<>>
    /\ idx' = 1
    /\ do_apply' = FALSE
    /\ do_detach' = FALSE
    /\ do_save' = FALSE
    /\ apply_options' = <<>>
    /\ changed' = FALSE
    /\ before' = <<>>
    /\ after' = <<>>
    /\ output' = <<>>
    /\ calls' = <<>>
    /\ result' = None
    /\ UNCHANGED dev0

NextTwin ==
    \/ TwinFirst
    \/ Resolve
    \/ Detach
    \/ Before
    \/ Command
    \/ After
    \/ Apply
    \/ Save
    \/ ExitJson
    \/ TwinSecond

SpecTwin == InitTwin /\ [][NextTwin]_vars

(***************************************************************************)
(* A run and its re-run: any accepted request runs to completion, then     *)
(* the same command list runs again on the device as the first run left    *)
(* it, with detach, atomic, apply, confirm and save false and outside      *)
(* check mode.                                                             *)
(***************************************************************************)
RerunOf(p) ==
    [p EXCEPT !.detach = FALSE, !.atomic = FALSE, !.apply = FALSE,
              !.confirm = FALSE, !.save = FALSE]

RerunFirst ==
    /\ pc = "idle"
    /\ twin = None
    /\ \E p \in ArgumentSpec, cm \in BOOLEAN :
        /\ ~Rejected(p)
        /\ Invoke(p, cm)
    /\ dev0' = device
    /\ UNCHANGED <<locals, calls, result, device, twin>>

\* the first run has returned; what is kept of it is what it reported (the
\* device has moved on, so there are no answers to repeat)
RerunSecond ==
    /\ pc = "done"
    /\ twin = None
    /\ twin' = Some([calls |-> <<>>, changed |-> result[1].changed])
    /\ Invoke(RerunOf(params), FALSE)
    /\ dev0' = device
    /\ commands' = <<>>
    /\ idx' = 1
    /\ do_apply' = FALSE
    /\ do_detach' = FALSE
    /\ do_save' = FALSE
    /\ apply_options' = <<>>
    /\ changed' = FALSE
    /\ before' = <<>>
    /\ after' = <<>>
    /\ output' = <<>>
    /\ calls' = <<>>
    /\ result' = None
    /\ UNCHANGED device

NextRerun ==
    \/ RerunFirst
    \/ Resolve
    \/ Detach
    \/ Before
    \/ Command
    \/ After
    \/ Apply
    \/ Save
    \/ ExitJson
    \/ RerunSecond

SpecRerun == InitTwin /\ [][NextRerun]_vars

(***************************************************************************)
(* Successive invocations on a device with two configuration items:        *)
(* plain, applying, atomic and check-mode runs of lists that set a, set    *)
(* b and unset a, any of which may fail midway.                            *)
(***************************************************************************)
LinesSeq == {Blank, SetA, SetB, UnsetA}

ArgumentSpecSeq ==
    {p \in [apply : BOOLEAN, atomic : BOOLEAN,
            commands : SeqsUpTo(LinesSeq, MaxCmds) \ {<<>>},
            confirm : {FALSE}, confirm_no : {FALSE},
            confirm_timeout : {DefaultTimeout}, confirm_yes : {FALSE},
            detach : {FALSE}, save : {FALSE}, template : {None}] :
        ~Rejected(p)}

MainSeq ==
    /\ pc = "idle"
    /\ \E p \in ArgumentSpecSeq, cm \in BOOLEAN : Invoke(p, cm)
    /\ dev0' = device
    /\ UNCHANGED <<locals, calls, result, device, twin>>

NextSeq ==
    \/ MainSeq
    \/ Resolve
    \/ Detach
    \/ Before
    \/ Command
    \/ After
    \/ Apply
    \/ Save
    \/ ExitJson
    \/ ProcessExit

SpecSeq == Init /\ [][NextSeq]_vars

(***************************************************************************)
(* Reading the record of executor calls                                    *)
(***************************************************************************)
\* the command text of a recorded call: its line without "/usr/bin/nv "
CommandOf(call) == SubSeq(call.line, 3, Len(call.line))

\* what a recorded call asked of the device, read off its line
\* "/usr/bin/nv config <verb> ..."
Kind(call) ==
    LET c == call.line
    IN  IF Len(c) >= 5 /\ c[3] = "config" /\ c[4] = SP
        THEN IF c[5] = "apply" THEN "apply"
             ELSE IF Len(c) > 5 THEN "command"
             ELSE IF c[5] = "detach" THEN "detach"
             ELSE IF c[5] = "diff" THEN "diff"
             ELSE IF c[5] = "save" THEN "save"
             ELSE "command"
        ELSE "command"

IsDetachCall(call) == Kind(call) = "detach"
IsDiffCall(call) == Kind(call) = "diff"
IsApplyCall(call) == Kind(call) = "apply"
IsSaveCall(call) == Kind(call) = "save"
IsConfigCall(call) == Kind(call) = "command"

CallsWhere(P(_)) == SelectSeq(calls, P)

ApplyIssued == CallsWhere(IsApplyCall) # <<>>
SaveIssued == CallsWhere(IsSaveCall) # <<>>

\* the apply and save steps of the invocation are behind it
PastApply ==
    \/ pc \in {"save", "exit", "done"}
    \/ pc = "failed" /\ calls # <<>>
         /\ (IsApplyCall(calls[Len(calls)]) \/ IsSaveCall(calls[Len(calls)]))

(***************************************************************************)
(* C1: in check mode neither 'config apply' nor 'config save' is ever      *)
(* handed to the executor, whatever the flags apply, save, atomic,         *)
(* confirm, confirm_yes, confirm_no and whatever the pending diff.         *)
(***************************************************************************)
C1_CheckModeNoApplyNoSave ==
    check_mode => ~ApplyIssued /\ ~SaveIssued

C1_Witness ==
    /\ check_mode /\ pc = "done"
    /\ params.apply /\ params.save /\ params.confirm
    /\ after # <<>>

(***************************************************************************)
(* C2: fail-fast abort.  A call that returned a non-zero exit status is    *)
(* the last call of its invocation, the invocation is failed, no result    *)
(* is returned, and the failure report carries the failing command text,   *)
(* its exit code, stdout and stderr.                                       *)
(***************************************************************************)
C2_FailFast ==
    \A i \in 1..Len(calls) :
        calls[i].rc # 0 =>
            /\ i = Len(calls)
            /\ pc = "failed"
            /\ result = None
            /\ failure # None
            /\ Contains(failure[1].msg, CommandOf(calls[i]))
            /\ failure[1].rc = calls[i].rc
            /\ failure[1].stdout = calls[i].stdout
            /\ failure[1].stderr = calls[i].stderr

C2_Witness ==
    /\ pc = "failed"
    /\ Len(calls) = 3
    /\ IsConfigCall(calls[3])
    /\ calls[3].rc = 2
    /\ Len(Words(JoinLines(commands))) > 2
    /\ params.apply /\ params.save /\ ~check_mode

(***************************************************************************)
(* C3: for every invocation that completes, changed = (before # after)     *)
(* or apply was performed or save was performed, where before and after    *)
(* are the trimmed outputs of the two diff calls.                          *)
(***************************************************************************)
C3_ChangedFlag ==
    pc = "done" =>
        LET diffs == CallsWhere(IsDiffCall)
            r == result[1]
        IN  /\ Len(diffs) = 2
            /\ r.diff.before = strip(diffs[1].stdout)
            /\ r.diff.after = strip(diffs[2].stdout)
            /\ r.changed = ((r.diff.before # r.diff.after) \/ ApplyIssued \/ SaveIssued)

\* before == after with neither apply nor save performed: changed is false
C3_Witness ==
    /\ pc = "done"
    /\ result[1].diff.before # <<>>
    /\ result[1].diff.before = result[1].diff.after
    /\ ~ApplyIssued /\ ~SaveIssued
    /\ CallsWhere(IsConfigCall) # <<>>
    /\ result[1].changed = FALSE

(***************************************************************************)
(* C4: when every earlier step succeeded, apply is issued iff the after    *)
(* snapshot is non-empty, apply or confirm or atomic was requested and     *)
(* the invocation is not in check mode; it is then issued exactly once,    *)
(* with --assume-yes on its command line.                                  *)
(***************************************************************************)
C4_ApplyIff ==
    PastApply =>
        LET applies == CallsWhere(IsApplyCall)
            wanted == /\ after # <<>>
                      /\ (params.apply \/ params.confirm \/ params.atomic)
                      /\ ~check_mode
        IN  /\ Len(applies) = (IF wanted THEN 1 ELSE 0)
            /\ \A i \in 1..Len(applies) :
                Contains(Words(applies[i].line), <<"--assume-yes">>)

C4_Witness ==
    /\ pc = "done"
    /\ params.apply /\ ~params.confirm /\ ~params.atomic
    /\ Len(CallsWhere(IsApplyCall)) = 1

(***************************************************************************)
(* C5 as written: a check-mode invocation leaves the device's pending      *)
(* buffer, applied configuration and saved configuration as they were      *)
(* when it started.                                                        *)
(***************************************************************************)
C5_Original ==
    check_mode => <<cand, applied, saved>> = dev0

(***************************************************************************)
(* C5 amended: a check-mode invocation leaves the device's applied and     *)
(* saved configuration as they were when it started (the pending buffer    *)
(* is detached and then changed by the commands).                          *)
(***************************************************************************)
C5_CheckModeKeepsCommitted ==
    check_mode => applied = dev0[2] /\ saved = dev0[3]

C5_Witness ==
    /\ check_mode /\ pc = "done"
    /\ params.apply /\ params.save
    /\ after # <<>>
    /\ cand # dev0[1]
    /\ applied # saved

(***************************************************************************)
(* C6: confirm=true forces apply even when the caller passed apply=false   *)
(* (the apply is issued whenever something is pending outside check mode)  *)
(* and every apply command line of the invocation contains                 *)
(* '--confirm <confirm_timeout>'.                                          *)
(***************************************************************************)
C6_ConfirmImpliesApply ==
    params.confirm =>
        /\ (PastApply /\ after # <<>> /\ ~check_mode => ApplyIssued)
        /\ \A i \in 1..Len(calls) :
            IsApplyCall(calls[i]) =>
                Contains(calls[i].line, <<SP, "--confirm", SP>> \o params.confirm_timeout)

C6_Witness ==
    /\ pc = "done"
    /\ params.confirm /\ ~params.apply
    /\ params.confirm_timeout # DefaultTimeout
    /\ ApplyIssued

(***************************************************************************)
(* C7: atomic=true acts as detach=true, apply=true.  From the same device  *)
(* state and with the same answers of the executor, the invocation with    *)
(* atomic=true (detach, apply false) and the invocation with atomic=false, *)
(* detach=true, apply=true and the same other parameters hand the same     *)
(* command lines to the executor, end the same way with the same result    *)
(* and leave the device in the same state; atomic without save never       *)
(* issues a save.                                                          *)
(***************************************************************************)
LinesOf(cs) == [i \in 1..Len(cs) |-> cs[i].line]

C7_AtomicIsDetachApply ==
    /\ params.atomic /\ ~params.save => ~SaveIssued
    /\ twin # None /\ twin[1].pc # "rejected" =>
        /\ params = TwinOf(twin[1].params)
        /\ IsPrefix(LinesOf(calls), LinesOf(twin[1].calls))
        /\ pc \in Terminal =>
            /\ pc = twin[1].pc
            /\ LinesOf(calls) = LinesOf(twin[1].calls)
            /\ result = twin[1].result
            /\ failure = twin[1].failure
            /\ <<cand, applied, saved>> = twin[1].device

C7_Witness ==
    /\ twin # None
    /\ twin[1].params.atomic /\ ~twin[1].params.save
    /\ pc = "done"
    /\ ~check_mode
    /\ IsDetachCall(calls[1])
    /\ ApplyIssued
    /\ cand # dev0[1]
    /\ applied # dev0[2]

(***************************************************************************)
(* C8: for every invocation that completes, output is one entry per        *)
(* resolved command that is not blank once trimmed (its trimmed stdout,    *)
(* in list order), then the apply output if apply ran and printed          *)
(* something, then the save output likewise; blank lines are never sent    *)
(* and the outputs of detach and diff never appear.                        *)
(***************************************************************************)
ResolvedCommands ==
    IF params.commands # <<>> THEN params.commands
    ELSE splitlines(params.template[1], <<>>)

NonBlank(ls) == SelectSeq(ls, LAMBDA l : strip(l) # <<>>)

RECURSIVE ExpectedOutput(_)
ExpectedOutput(cs) ==
    IF cs = <<>> THEN <<>>
    ELSE LET c == Head(cs)
             out == strip(c.stdout)
         IN  (IF IsConfigCall(c) THEN <<out>>
              ELSE IF (IsApplyCall(c) \/ IsSaveCall(c)) /\ out # <<>> THEN <<out>>
              ELSE <<>>)
             \o ExpectedOutput(Tail(cs))

C8_OutputEntries ==
    pc = "done" =>
        LET sent == CallsWhere(IsConfigCall)
            wanted == NonBlank(ResolvedCommands)
        IN  /\ Len(sent) = Len(wanted)
            /\ \A i \in 1..Len(sent) : CommandOf(sent[i]) = strip(wanted[i])
            /\ result[1].msg = ExpectedOutput(calls)
            /\ Len(result[1].msg) =
                  Len(wanted)
                  + (IF ApplyIssued /\ strip(CallsWhere(IsApplyCall)[1].stdout) # <<>>
                     THEN 1 ELSE 0)
                  + (IF SaveIssued /\ strip(CallsWhere(IsSaveCall)[1].stdout) # <<>>
                     THEN 1 ELSE 0)

C8_Witness ==
    /\ pc = "done"
    /\ Len(ResolvedCommands) = 3
    /\ Len(NonBlank(ResolvedCommands)) = 2
    /\ IsDetachCall(calls[1])
    /\ ApplyIssued /\ SaveIssued
    /\ result[1].msg = <<<<"ok">>, <<>>, <<"saved">>>>

(***************************************************************************)
(* C9: detach is issued iff detach or atomic was requested or the          *)
(* invocation runs in check mode; when issued it is the first executor     *)
(* call, before the 'before' snapshot; otherwise the first call is the     *)
(* 'before' diff.                                                          *)
(***************************************************************************)
C9_DetachIff ==
    calls # <<>> =>
        /\ IsDetachCall(calls[1]) = (params.detach \/ params.atomic \/ check_mode)
        /\ ~IsDetachCall(calls[1]) => IsDiffCall(calls[1])
        /\ \A i \in 2..Len(calls) : ~IsDetachCall(calls[i])

C9_Witness ==
    /\ pc = "done"
    /\ check_mode /\ ~params.detach /\ ~params.atomic
    /\ IsDetachCall(calls[1])
    /\ IsDiffCall(calls[2])

(***************************************************************************)
(* C10: a request with both commands and template populated, or with       *)
(* both members true of one of the pairs (apply, atomic), (detach,         *)
(* atomic), (confirm, atomic), (confirm_yes, atomic), (confirm_no,         *)
(* atomic), (confirm, confirm_yes), (confirm, confirm_no), (confirm_yes,   *)
(* confirm_no), is rejected with no executor call at all.                  *)
(***************************************************************************)
Conflicting(p) ==
    \/ p.commands # <<>> /\ p.template # None
    \/ p.apply /\ p.atomic
    \/ p.detach /\ p.atomic
    \/ p.confirm /\ p.atomic
    \/ p.confirm_yes /\ p.atomic
    \/ p.confirm_no /\ p.atomic
    \/ p.confirm /\ p.confirm_yes
    \/ p.confirm /\ p.confirm_no
    \/ p.confirm_yes /\ p.confirm_no

C10_MutualExclusion ==
    Conflicting(params) =>
        /\ pc = "rejected"
        /\ calls = <<>>
        /\ failure # None
        /\ result = None
        /\ <<cand, applied, saved>> = dev0

C10_Witness ==
    /\ pc = "rejected"
    /\ params.detach /\ params.atomic
    /\ ~params.apply /\ ~params.confirm /\ ~params.confirm_yes /\ ~params.confirm_no
    /\ params.commands = <<>> \/ params.template = None

(***************************************************************************)
(* C11 as written: every invocation outside check mode that completes      *)
(* with confirm_yes=true (confirm_no=true) has issued an apply command     *)
(* whose options include --confirm-yes (--confirm-no), whatever the apply  *)
(* flag and the pending diff.                                              *)
(***************************************************************************)
AppliedWith(option) ==
    \E i \in 1..Len(calls) :
        IsApplyCall(calls[i]) /\ Contains(Words(calls[i].line), <<option>>)

C11_ConfirmYesNoExecuted ==
    pc = "done" /\ ~check_mode =>
        /\ params.confirm_yes => AppliedWith("--confirm-yes")
        /\ params.confirm_no => AppliedWith("--confirm-no")

(***************************************************************************)
(* C12: when every earlier step succeeded, save is issued iff save was     *)
(* requested and the invocation is not in check mode, whether or not       *)
(* apply ran and whether or not anything is pending; it is then issued     *)
(* exactly once, it is the last executor call, and changed is true.        *)
(***************************************************************************)
PastSave ==
    \/ pc \in {"exit", "done"}
    \/ pc = "failed" /\ calls # <<>> /\ IsSaveCall(calls[Len(calls)])

C12_SaveIff ==
    PastSave =>
        LET saves == CallsWhere(IsSaveCall)
            wanted == params.save /\ ~check_mode
        IN  /\ Len(saves) = (IF wanted THEN 1 ELSE 0)
            /\ wanted =>
                /\ IsSaveCall(calls[Len(calls)])
                /\ changed
                /\ pc = "done" => result[1].changed

C12_Witness ==
    /\ pc = "done"
    /\ params.save /\ ~params.apply /\ ~params.atomic /\ ~params.confirm
    /\ before = <<>> /\ after = <<>>
    /\ ~ApplyIssued
    /\ IsSaveCall(calls[Len(calls)])
    /\ result[1].changed

(***************************************************************************)
(* C13: strict ordering.  The executor calls of an invocation are a        *)
(* prefix of [detach]? diff c1 .. ck diff [apply]? [save]?, c1 .. ck       *)
(* being the non-blank commands in list order; apply comes only after the  *)
(* after diff and after every command has succeeded, and save never        *)
(* comes before apply.                                                     *)
(***************************************************************************)
C13_StrictOrder ==
    calls # <<>> =>
        LET wanted == NonBlank(ResolvedCommands)
            k == Len(wanted)
            \* calls before the first diff: the detach, if there is one
            d == IF IsDetachCall(calls[1]) THEN 1 ELSE 0
        IN  \A i \in 1..Len(calls) :
                LET j == i - d
                    kind == Kind(calls[i])
                IN  /\ i < Len(calls) => calls[i].rc = 0
                    /\ IF j = 0 THEN TRUE
                       ELSE IF j = 1 \/ j = k + 2 THEN kind = "diff"
                       ELSE IF j <= k + 1
                       THEN /\ kind = "command"
                            /\ CommandOf(calls[i]) = strip(wanted[j - 1])
                       ELSE IF j = k + 3 THEN kind \in {"apply", "save"}
                       ELSE /\ j = k + 4
                            /\ kind = "save"
                            /\ IsApplyCall(calls[i - 1])

C13_Witness ==
    /\ pc = "done"
    /\ Len(calls) = 7
    /\ IsDetachCall(calls[1])
    /\ CommandOf(calls[3]) # CommandOf(calls[4])
    /\ Len(ResolvedCommands) = 3
    /\ IsApplyCall(calls[6])
    /\ IsSaveCall(calls[7])

(***************************************************************************)
(* C14 as written: every request that passes the argument validation       *)
(* resolves a command list and ends either with a result or with an        *)
(* ExecutionFailure, the report of an executor call that returned a        *)
(* non-zero exit status; there is no other way for it to end.              *)
(***************************************************************************)
C14_OnlyExecutionFailure ==
    pc \in Terminal /\ ~Rejected(params) =>
        \/ pc = "done" /\ result # None /\ failure = None
        \/ /\ pc = "failed" /\ result = None /\ failure # None
           /\ calls # <<>> /\ calls[Len(calls)].rc # 0

(***************************************************************************)
(* C15 as written: every invocation that the validation lets through       *)
(* ends in Done or Failed, without loop or retry: each non-blank command   *)
(* is sent at most once, diff at most twice, detach, apply and save at     *)
(* most once each, at most k + 5 executor calls for k non-blank commands.  *)
(***************************************************************************)
CallBounds ==
    calls # <<>> =>
        /\ Len(CallsWhere(IsConfigCall)) <= Len(NonBlank(ResolvedCommands))
        /\ Len(CallsWhere(IsDiffCall)) <= 2
        /\ Len(CallsWhere(IsDetachCall)) <= 1
        /\ Len(CallsWhere(IsApplyCall)) <= 1
        /\ Len(CallsWhere(IsSaveCall)) <= 1
        /\ Len(calls) <= Len(NonBlank(ResolvedCommands)) + 5

C15_TerminatesDoneOrFailed ==
    /\ CallBounds
    /\ pc \in Terminal /\ ~Rejected(params) => pc \in {"done", "failed"}

\* the part of C15 that the code keeps: the bounds on the executor calls
C15_CallBounds == CallBounds /\ (pc = "crashed" => calls = <<>>)

(***************************************************************************)
(* C16: over any sequence of invocations on one device (failed midway,     *)
(* check mode, without apply), an invocation with atomic=true outside      *)
(* check mode that completes leaves as applied configuration the one it    *)
(* found applied, changed by its own command list only: nothing that       *)
(* earlier invocations left in the pending buffer is committed.            *)
(***************************************************************************)
RECURSIVE OwnEffect(_, _)
OwnEffect(conf, ls) ==
    IF ls = <<>> THEN conf
    ELSE LET w == Words(Head(ls))
         IN  OwnEffect(IF Len(w) = 2 /\ w[1] = "set" THEN conf \cup {w[2]}
                       ELSE IF Len(w) = 2 /\ w[1] = "unset" THEN conf \ {w[2]}
                       ELSE conf,
                       Tail(ls))

C16_AtomicCommitsOwnChanges ==
    pc = "done" /\ params.atomic /\ ~check_mode =>
        /\ applied = OwnEffect(dev0[2], ResolvedCommands)
        /\ cand = applied
        /\ ApplyIssued = (applied # dev0[2])

C16_Witness ==
    /\ pc = "done" /\ params.atomic /\ ~check_mode
    /\ "b" \in dev0[1] /\ "b" \notin dev0[2]
    /\ "a" \notin dev0[1]
    /\ ApplyIssued
    /\ applied = dev0[2] \cup {"a"}
    /\ "b" \notin applied

(***************************************************************************)
(* C17: idempotent re-run.  Running the same command list a second time    *)
(* right after a first successful run, with detach, atomic, apply,         *)
(* confirm and save false and outside check mode, on a device whose        *)
(* commands are idempotent on the pending buffer, has before = after in    *)
(* the second run and returns changed = false.                             *)
(***************************************************************************)
C17_IdempotentRerun ==
    twin # None =>
        /\ pc \in {"apply", "save", "exit", "done"} => before = after /\ ~changed
        /\ pc = "done" =>
            /\ result[1].diff.before = result[1].diff.after
            /\ result[1].changed = FALSE
            /\ ~ApplyIssued /\ ~SaveIssued /\ ~IsDetachCall(calls[1])

C17_Witness ==
    /\ twin # None
    /\ twin[1].changed
    /\ pc = "done"
    /\ Len(CallsWhere(IsConfigCall)) = 2
    /\ result[1].diff.before # <<>>
    /\ result[1].changed = FALSE
====
